---- MODULE Spec2Model ----
(***************************************************************************)
(* A model of the crawl engine of backend/src/services/scraper.service.js   *)
(* (class ScraperService): the URL handling it relies on, the link          *)
(* classification, the two retrieval strategies, the crawl loop and the     *)
(* two-phase orchestration in scrape().                                      *)
(*                                                                           *)
(* Strings are sequences of tokens.  The delimiters "/", "?", "#" and the   *)
(* scheme prefixes "https:" and "mailto:" are tokens of their own; every    *)
(* other token is a name (a host or a path segment).  The token alphabet    *)
(* holds no "." or ".." segment, so path normalisation has nothing to do.   *)
(***************************************************************************)
EXTENDS Integers, Sequences, FiniteSets, TLC

VARIABLES
  job,    \* the crawl job of one request
  job2,   \* the crawl job of a second, concurrent request
  req,    \* a POST /api/scrape request and what the route did with it
  ext,    \* a document handed to scrapePage and the PageResult extracted
  fed,    \* the outcomes that the two concurrent jobs have consumed, in order
  tab     \* the calls of scrapeWithPuppeteer on one ScraperService, step by step

vars == <<job, job2, req, ext, fed, tab>>

----------------------------------------------------------------------------
(* Bounds of the model *)

\* largest maxPages option a job is created with
MaxPagesBound == 2

\* largest number of anchors in one fetched document
MaxAnchors == 2

\* the largest maxPages a request body carries
MaxRequestPages == 11

\* the most calls of scrapeWithPuppeteer followed step by step
MaxCalls == 2

----------------------------------------------------------------------------
(* Sequences *)

\* index of the first element of s that is in set D, Len(s)+1 if there is none
RECURSIVE FirstIn(_, _, _)
FirstIn(s, D, i) ==
  IF i > Len(s) THEN Len(s) + 1
  ELSE IF s[i] \in D THEN i
  ELSE FirstIn(s, D, i + 1)

\* index of the last "/" of s, 0 if there is none
RECURSIVE LastSlash(_, _)
LastSlash(s, i) ==
  IF i = 0 THEN 0
  ELSE IF s[i] = "/" THEN i
  ELSE LastSlash(s, i - 1)

\* s without its leading "/" tokens
RECURSIVE SkipSlashes(_)
SkipSlashes(s) ==
  IF s # <<>> /\ Head(s) = "/" THEN SkipSlashes(Tail(s)) ELSE s

Includes(s, x) == \E i \in 1..Len(s) : s[i] = x

\* [...new Set(s)]: first occurrences, in order
RECURSIVE Dedupe(_, _)
Dedupe(s, acc) ==
  IF s = <<>> THEN acc
  ELSE Dedupe(Tail(s), IF Includes(acc, Head(s)) THEN acc ELSE Append(acc, Head(s)))

\* s.slice(0, n)
Slice(s, n) == SubSeq(s, 1, IF Len(s) < n THEN Len(s) ELSE n)

----------------------------------------------------------------------------
(* URL: the WHATWG parser of Node's url module, on token strings *)

SpecialSchemes == {"https:"}
OpaqueSchemes  == {"mailto:"}

InvalidURL ==
  [ok |-> FALSE, protocol |-> "", host |-> <<>>, pathname |-> <<>>,
   search |-> <<>>, hash |-> <<>>]

\* the path, query and fragment parts of a string that starts at its path
PathPart(s)  == SubSeq(s, 1, FirstIn(s, {"?", "#"}, 1) - 1)
QueryPart(s) ==
  LET q == FirstIn(s, {"?", "#"}, 1)
  IN  IF q <= Len(s) /\ s[q] = "?"
      THEN SubSeq(s, q, FirstIn(s, {"#"}, 1) - 1)
      ELSE <<>>
HashPart(s)  == SubSeq(s, FirstIn(s, {"#"}, 1), Len(s))

\* authority and what follows it; the leading slashes are skipped, however many
ParseAuthority(protocol, s) ==
  LET r == SkipSlashes(s)
      e == FirstIn(r, {"/", "?", "#"}, 1)
      rest == SubSeq(r, e, Len(r))
  IN  IF e = 1 THEN InvalidURL      \* empty host
      ELSE [ok |-> TRUE, protocol |-> protocol, host |-> SubSeq(r, 1, e - 1),
            pathname |-> IF PathPart(rest) = <<>> THEN <<"/">> ELSE PathPart(rest),
            search |-> QueryPart(rest), hash |-> HashPart(rest)]

\* new URL(input) without a base
ParseAbsolute(input) ==
  IF input = <<>> THEN InvalidURL
  ELSE IF Head(input) \in SpecialSchemes THEN ParseAuthority(Head(input), Tail(input))
  ELSE IF Head(input) \in OpaqueSchemes
       THEN [ok |-> TRUE, protocol |-> Head(input), host |-> <<>>,
             pathname |-> PathPart(Tail(input)), search |-> QueryPart(Tail(input)),
             hash |-> HashPart(Tail(input))]
  ELSE InvalidURL

\* new URL(input, base), base a parsed hierarchical URL
ParseRelative(input, base) ==
  IF input = <<>> THEN [base EXCEPT !.hash = <<>>]
  ELSE IF Head(input) = "#" THEN [base EXCEPT !.hash = input]
  ELSE IF Head(input) = "?"
       THEN [base EXCEPT !.search = QueryPart(input), !.hash = HashPart(input)]
  ELSE IF Head(input) = "/"
       THEN IF Len(input) >= 2 /\ input[2] = "/"
            THEN ParseAuthority(base.protocol, input)
            ELSE [base EXCEPT !.pathname = PathPart(input),
                              !.search = QueryPart(input), !.hash = HashPart(input)]
  ELSE [base EXCEPT
          !.pathname = SubSeq(base.pathname, 1, LastSlash(base.pathname, Len(base.pathname)))
                         \o PathPart(input),
          !.search = QueryPart(input), !.hash = HashPart(input)]

\* new URL(input, baseString); throws (ok = FALSE) on a string that is no URL
URL(input, baseString) ==
  IF input # <<>> /\ Head(input) \in (SpecialSchemes \cup OpaqueSchemes)
  THEN ParseAbsolute(input)
  ELSE LET base == ParseAbsolute(baseString)
       IN  IF ~base.ok \/ base.protocol \notin SpecialSchemes THEN InvalidURL
           ELSE ParseRelative(input, base)

\* url.href
Href(u) ==
  IF u.protocol \in SpecialSchemes
  THEN <<u.protocol, "/", "/">> \o u.host \o u.pathname \o u.search \o u.hash
  ELSE <<u.protocol>> \o u.pathname \o u.search \o u.hash

----------------------------------------------------------------------------
(* Link classifier *)

\* path segments that end in one of the invalidExtensions
InvalidExtensionNames == {"f.pdf"}

isValidPageLink(path) ==
  LET hasInvalidExtension == path # <<>> /\ path[Len(path)] \in InvalidExtensionNames
      hasInvalidPattern   == path # <<>> /\ Head(path) \in {"#", "mailto:"}
  IN  ~hasInvalidExtension /\ ~hasInvalidPattern

\* the loop of extractInternalLinks over the anchors, in document order
RECURSIVE InternalLoop(_, _, _, _, _)
InternalLoop(anchors, pageUrl, baseDomain, links, seen) ==
  IF anchors = <<>> THEN links
  ELSE
    LET href == Head(anchors)
        absoluteUrl == URL(href, pageUrl)
        keep == /\ href # <<>>
                /\ href \notin seen
                /\ absoluteUrl.ok
                /\ absoluteUrl.host = baseDomain
                /\ isValidPageLink(absoluteUrl.pathname)
    IN  InternalLoop(Tail(anchors), pageUrl, baseDomain,
                     IF keep THEN Append(links, absoluteUrl.pathname) ELSE links,
                     IF keep THEN seen \cup {href} ELSE seen)

extractInternalLinks(anchors, pageUrl, baseDomain) ==
  Slice(Dedupe(InternalLoop(anchors, pageUrl, baseDomain, <<>>, {}), <<>>), 100)

RECURSIVE ExternalLoop(_, _, _, _, _)
ExternalLoop(anchors, pageUrl, baseDomain, links, seen) ==
  IF anchors = <<>> THEN links
  ELSE
    LET href == Head(anchors)
        absoluteUrl == URL(href, pageUrl)
        keep == /\ href # <<>>
                /\ href \notin seen
                /\ absoluteUrl.ok
                /\ absoluteUrl.host # baseDomain
                /\ absoluteUrl.protocol \in SpecialSchemes
    IN  ExternalLoop(Tail(anchors), pageUrl, baseDomain,
                     IF keep THEN Append(links, Href(absoluteUrl)) ELSE links,
                     IF keep THEN seen \cup {href} ELSE seen)

extractExternalLinks(anchors, pageUrl, baseDomain) ==
  Slice(ExternalLoop(anchors, pageUrl, baseDomain, <<>>, {}), 50)

\* null is the empty string
Null == <<>>

resolveUrl(path, baseUrl) ==
  LET u == URL(path, baseUrl)
  IN  IF u.ok THEN Href(u) ELSE Null

----------------------------------------------------------------------------
(* Errors *)

\* new AppError(message, statusCode)
AppError(message, statusCode) ==
  [name |-> "AppError", message |-> message, statusCode |-> statusCode,
   code |-> "", responseStatus |-> 0]

\* any other thrown error: an axios error (code, response.status), a plain
\* Error or a TypeError
PlainError(message, code, responseStatus) ==
  [name |-> "Error", message |-> message, statusCode |-> 0,
   code |-> code, responseStatus |-> responseStatus]

NoError ==
  [name |-> "none", message |-> "", statusCode |-> 0, code |-> "", responseStatus |-> 0]

\* messages that contain the word "certificate"
CertificateMessages == {"certificate has expired"}

\* the catch block of scrape, after closeBrowser
TranslateError(error) ==
  IF error.name = "AppError" THEN error
  ELSE IF error.code = "ENOTFOUND"
       THEN AppError("Website not found. Please check the URL.", 400)
  ELSE IF error.code = "ECONNREFUSED"
       THEN AppError("Connection refused. The website may be down.", 503)
  ELSE IF error.code \in {"CERT_HAS_EXPIRED", "UNABLE_TO_VERIFY_LEAF_SIGNATURE",
                          "SELF_SIGNED_CERT_IN_CHAIN", "ERR_TLS_CERT_ALTNAME_INVALID"}
          \/ error.message \in CertificateMessages
       THEN AppError("SSL certificate error. The website has an invalid certificate.", 400)
  ELSE IF error.message = "Invalid URL"
       THEN AppError("Invalid URL format provided.", 400)
  ELSE AppError("Failed to scrape the website. Please try again.", 500)

----------------------------------------------------------------------------
(* What the network answers *)

\* seed URLs a caller passes to scrape: the root of host h, a page of host h,
\* and a string that is no URL
GenericSeeds ==
  { <<"https:", "/", "/", "h", "/">>,
    <<"https:", "/", "/", "h", "/", "a">>,
    <<"h">> }

\* seed URLs of the LeetCode host: a user profile in both forms, a page that
\* is no profile, and the root
LeetCodeSeeds ==
  { <<"https:", "/", "/", "leetcode.com", "/", "u", "/", "x">>,
    <<"https:", "/", "/", "leetcode.com", "/", "x">>,
    <<"https:", "/", "/", "leetcode.com", "/", "problems">>,
    <<"https:", "/", "/", "leetcode.com", "/">> }

Seeds == GenericSeeds \cup LeetCodeSeeds

\* what the GraphQL API answers: a matched user, no matched user, or the
\* request is rejected
LeetCodeReplies == {"user", "nouser", "rejected"}

\* href attributes of anchors: a path, a fragment, a URL of another host e,
\* and a URL of host h whose path starts with an empty segment
Hrefs ==
  { <<"/", "a">>,
    <<"#", "s">>,
    <<"https:", "/", "/", "e", "/", "a">>,
    <<"https:", "/", "/", "h", "/", "/", "e", "/", "a">> }

AnchorLists == UNION { [1..n -> Hrefs] : n \in 0..MaxAnchors }

\* a parsed document as the link extractors of scrapePage find it: the hrefs
\* of its anchors outside nav, header, footer, aside and sidebar elements, in
\* document order, and whether its markup holds one of the challenge markers
Documents ==
  { [marker |-> FALSE, anchors |-> a] : a \in AnchorLists }
    \cup { [marker |-> TRUE, anchors |-> <<>>] }

NoDocument == [marker |-> FALSE, anchors |-> <<>>]

\* what axios.get settles with: a rejection (a network error code, or a
\* response status outside 2xx), or a response
AxiosSettles ==
  { [rejected |-> TRUE, code |-> c, status |-> 0, html |-> FALSE, data |-> NoDocument] :
      c \in {"ENOTFOUND", "ECONNABORTED"} }
    \cup
  { [rejected |-> TRUE, code |-> "ERR_BAD_REQUEST", status |-> st, html |-> FALSE,
     data |-> NoDocument] : st \in {403, 429} }
    \cup
  { [rejected |-> FALSE, code |-> "", status |-> 200, html |-> TRUE, data |-> d] :
      d \in Documents }
    \cup
  { [rejected |-> FALSE, code |-> "", status |-> 200, html |-> FALSE, data |-> NoDocument] }

\* what the browser does during one scrapeWithPuppeteer: whether a launch
\* succeeds ("ok"), finds no runtime ("unavailable") or throws ("throws");
\* whether a step on the page throws; the markup page.content() returns
PuppeteerRuns ==
  { [launch |-> l, pageThrows |-> TRUE, content |-> NoDocument] :
      l \in {"ok", "unavailable", "throws"} }
    \cup
  { [launch |-> "ok", pageThrows |-> FALSE, content |-> d] : d \in Documents }

----------------------------------------------------------------------------
(* Retrieval strategies *)

Fetched(kind, html, error) == [kind |-> kind, html |-> html, error |-> error]

\* scrapeWithAxios: the markup, null, or a throw
scrapeWithAxios(settle) ==
  IF settle.rejected
  THEN Fetched("throw", NoDocument,
               PlainError("Request failed", settle.code, settle.status))
  ELSE IF ~settle.html THEN Fetched("null", NoDocument, NoError)
  ELSE IF settle.data.marker
       THEN Fetched("throw", NoDocument,
                    PlainError("Cloudflare protection detected", "", 0))
  ELSE Fetched("html", settle.data, NoError)

\* getBrowser: this.browser after the call, and what the call returns or throws
getBrowser(browser, run) ==
  IF browser = "open" THEN [browser |-> "open", returns |-> "open", launched |-> 0]
  ELSE IF run.launch = "ok" THEN [browser |-> "open", returns |-> "open", launched |-> 1]
  ELSE IF run.launch = "unavailable"
       THEN [browser |-> "null", returns |-> "null", launched |-> 0]
  ELSE [browser |-> "null", returns |-> "throws", launched |-> 0]

\* scrapeWithPuppeteer, had it returned null when there is no browser
scrapeWithPuppeteerQuietly(browser, run) ==
  LET b == getBrowser(browser, run)
      result ==
        IF b.returns = "throws"
        THEN Fetched("throw", NoDocument, PlainError("Failed to launch the browser process", "", 0))
        ELSE IF b.returns = "null"
        THEN Fetched("null", NoDocument, NoError)
        ELSE IF run.pageThrows
        THEN Fetched("throw", NoDocument, PlainError("Navigation failed", "", 0))
        ELSE Fetched("html", run.content, NoError)
  IN  [browser |-> b.browser, launched |-> b.launched,
       unavailable |-> IF b.returns = "null" THEN 1 ELSE 0, result |-> result]

\* scrapeWithPuppeteer: the fetch result, with this.browser after the call and
\* whether getBrowser gave no browser.  The markup is returned whether or not
\* it still holds a challenge marker.
scrapeWithPuppeteer(browser, run) ==
  LET b == getBrowser(browser, run)
      result ==
        IF b.returns = "throws"
        THEN Fetched("throw", NoDocument, PlainError("Failed to launch the browser process", "", 0))
        ELSE IF b.returns = "null"
        THEN Fetched("throw", NoDocument, PlainError("Browser not available", "", 0))
        ELSE IF run.pageThrows
        THEN Fetched("throw", NoDocument, PlainError("Navigation failed", "", 0))
        ELSE Fetched("html", run.content, NoError)
  IN  [browser |-> b.browser, launched |-> b.launched,
       unavailable |-> IF b.returns = "null" THEN 1 ELSE 0, result |-> result]

\* extractTitle: the trimmed text of the first title element, else of the
\* first h1, else 'Untitled Page'.  A document record without the fields
\* title and h1 is markup without these elements.
extractTitle(html) ==
  IF "title" \in DOMAIN html /\ html.title # "" THEN html.title
  ELSE IF "h1" \in DOMAIN html /\ html.h1 # "" THEN html.h1
  ELSE "Untitled Page"

\* scrapePage after the fetch returned markup
scrapePage(url, html, baseDomain) ==
  [url |-> URL(url, Null).pathname,
   fullUrl |-> url,
   title |-> extractTitle(html),
   internalLinks |-> extractInternalLinks(html.anchors, url, baseDomain),
   externalLinks |-> extractExternalLinks(html.anchors, url, baseDomain)]

\* where an anchor stands in the markup: in the body text, or inside an
\* element that extractContent removes
Places == {"main", "nav", "footer"}

RemovedPlaces == {"nav", "footer", "header", "aside", "sidebar"}

\* the hrefs of all the anchor elements of the markup, in document order
AllAnchors(elements) == [i \in 1..Len(elements) |-> elements[i].href]

\* the anchors left in $ when extractContent has run
\* $('script, style, nav, footer, header, aside, ...').remove()
AfterExtractContent(elements) ==
  AllAnchors(SelectSeq(elements, LAMBDA e : e.place \notin RemovedPlaces))

\* scrapePage on fetched markup: the fields of the object literal are
\* evaluated in order, content before images, internalLinks and externalLinks
scrapePageOf(url, elements, baseDomain) ==
  scrapePage(url, [marker |-> FALSE, anchors |-> AfterExtractContent(elements)], baseDomain)

----------------------------------------------------------------------------
(* The LeetCode adapter *)

\* host names that contain "leetcode.com"
LeetCodeNames == {"leetcode.com"}

\* the host test of the adapter, had it matched no host
IsLeetCodeNever(host) == FALSE

\* parsedUrl.host.includes('leetcode.com')
IsLeetCode(host) == \E i \in 1..Len(host) : host[i] \in LeetCodeNames

\* parsedUrl.pathname.split('/').filter(p => p)
PathParts(pathname) == SelectSeq(pathname, LAMBDA t : t # "/")

\* the username the adapter takes from the path, Null if the page is no profile
Username(pathParts) ==
  IF Len(pathParts) >= 2 /\ pathParts[1] = "u" THEN <<pathParts[2]>>
  ELSE IF Len(pathParts) >= 1
          /\ pathParts[1] \notin {"problems", "contest", "discuss", "explore"}
       THEN <<pathParts[1]>>
  ELSE Null

\* `${userData.username} - LeetCode Profile`, for the user of the reply
ProfileTitle == "username - LeetCode Profile"

\* scrapeLeetCode: the SiteResult it returns, or the AppError it throws
scrapeLeetCode(url, parsedUrl, reply) ==
  IF Username(PathParts(parsedUrl.pathname)) = Null
  THEN [kind |-> "throw", pages |-> <<>>,
        error |-> AppError("LeetCode pages other than user profiles cannot be scraped due to heavy JavaScript rendering.", 400)]
  ELSE IF reply = "rejected"
  THEN [kind |-> "throw", pages |-> <<>>,
        error |-> AppError("Failed to fetch LeetCode profile. The user may not exist or the service is temporarily unavailable.", 503)]
  ELSE IF reply = "nouser"
  THEN [kind |-> "throw", pages |-> <<>>, error |-> AppError("LeetCode user not found.", 404)]
  ELSE [kind |-> "site", error |-> NoError,
        pages |-> << [url |-> parsedUrl.pathname, fullUrl |-> url,
                      title |-> ProfileTitle,
                      internalLinks |-> <<>>, externalLinks |-> <<>>] >>]

----------------------------------------------------------------------------
(* The crawl job: a ScraperService and the locals of its scrape call *)

NoResult == [kind |-> "none", siteTitle |-> "", baseUrl |-> Null, totalPages |-> 0, pages |-> <<>>,
             error |-> NoError]

NoEvent == [kind |-> "none", url |-> Null, attempt |-> 0, pagesBefore |-> 0, queueAfter |-> 0]

\* new ScraperService({maxPages}).  Besides the fields of the object and the
\* locals of scrape and crawlPages (url, pages, urlsToVisit), the record keeps
\* the history the properties speak of: traversals (calls of crawlPages),
\* fetched and enqueued (the URLs attempted, and pushed, in the current
\* traversal, in order), launched and closed (browsers), unavailable (calls of getBrowser that gave no browser), axiosError (what the
\* inner catch of scrape caught), thrown (the raw errors that reached the
\* total-failure branch), emptyEnds (traversals whose loop ended with no page),
\* challenged (URLs whose rendered markup held a challenge marker), last (what
\* the last loop iteration did).
NewJob(maxPages) ==
  [pc |-> "new",
   maxPages |-> maxPages,
   visitedUrls |-> {},
   baseUrl |-> Null,
   baseDomain |-> Null,
   browser |-> "null",
   usePuppeteer |-> FALSE,
   url |-> Null,
   pages |-> <<>>,
   urlsToVisit |-> <<>>,
   result |-> NoResult,
   traversals |-> 0,
   fetched |-> <<>>,
   enqueued |-> <<>>,
   launched |-> 0,
   unavailable |-> 0,
   closed |-> 0,
   axiosError |-> NoError,
   thrown |-> <<>>,
   emptyEnds |-> 0,
   challenged |-> {},
   last |-> NoEvent]

closeBrowser(j) ==
  IF j.browser = "open"
  THEN [j EXCEPT !.browser = "null", !.closed = @ + 1]
  ELSE j

\* the first lines of crawlPages, up to the first test of the loop condition
BeginCrawl(j, startUrl) ==
  [j EXCEPT !.pc = "crawl", !.pages = <<>>, !.urlsToVisit = <<startUrl>>,
            !.traversals = @ + 1, !.fetched = <<>>, !.enqueued = <<startUrl>>]

\* the outer catch of scrape, had it left the browser open
ScrapeCatchNoClose(j, error) ==
  [j EXCEPT !.pc = "done",
     !.result = [NoResult EXCEPT !.kind = "error", !.error = TranslateError(error)]]

\* the outer catch of scrape
ScrapeCatch(j, error) ==
  [closeBrowser(j) EXCEPT !.pc = "done",
     !.result = [NoResult EXCEPT !.kind = "error", !.error = TranslateError(error)]]

\* the inner catch of scrape: whatever crawlPages threw in the static phase,
\* the inner catch of scrape, had it not cleared the visited set
InnerCatchKeepsVisited(j, axiosError) ==
  BeginCrawl([j EXCEPT !.usePuppeteer = TRUE, !.axiosError = axiosError], j.url)

\* the traversal starts again with the rendered strategy
InnerCatch(j, axiosError) ==
  BeginCrawl([j EXCEPT !.usePuppeteer = TRUE, !.visitedUrls = {},
                       !.axiosError = axiosError], j.url)

\* a throw out of crawlPages: into the inner catch from the first call, into
\* the outer catch from the second
CrawlThrows(j, error) ==
  IF ~j.usePuppeteer THEN InnerCatch(j, error) ELSE ScrapeCatch(j, error)

\* the rest of scrape, had it taken the site title from the last page
CrawlReturnsLastTitle(j) ==
  LET k == IF j.usePuppeteer THEN closeBrowser(j) ELSE j
  IN  [k EXCEPT !.pc = "done",
         !.result = [kind |-> "site",
                     siteTitle |-> IF Len(j.pages) > 0 THEN j.pages[Len(j.pages)].title ELSE "",
                     baseUrl |-> j.baseUrl,
                     totalPages |-> Len(j.pages), pages |-> j.pages,
                     error |-> NoError]]

\* crawlPages returned pages: the rest of scrape
CrawlReturns(j) ==
  LET k == IF j.usePuppeteer THEN closeBrowser(j) ELSE j
  IN  [k EXCEPT !.pc = "done",
         !.result = [kind |-> "site",
                     siteTitle |-> IF Len(j.pages) > 0 THEN j.pages[1].title ELSE "",
                     baseUrl |-> j.baseUrl,
                     totalPages |-> Len(j.pages), pages |-> j.pages,
                     error |-> NoError]]

\* the loop condition with <= in the place of <
LoopConditionOffByOne(urlsToVisit, pages, maxPages) ==
  Len(urlsToVisit) > 0 /\ Len(pages) <= maxPages

\* while (urlsToVisit.length > 0 && pages.length < this.maxPages)
LoopCondition(urlsToVisit, pages, maxPages) ==
  Len(urlsToVisit) > 0 /\ Len(pages) < maxPages

\* the links of a page enqueued whether or not the cap is reached
MayEnqueueAlways(pages, maxPages) == TRUE

\* if (pages.length < this.maxPages), before the links of a page are enqueued
MayEnqueue(pages, maxPages) == Len(pages) < maxPages

\* the total-failure test with || in the place of &&
IsTotalFailureEither(pages, urlsToVisit) == Len(pages) = 0 \/ Len(urlsToVisit) = 0

\* the total-failure test, had it looked at the queue only
IsTotalFailureQueueOnly(pages, urlsToVisit) == Len(urlsToVisit) = 0

\* if (pages.length === 0 && urlsToVisit.length === 0), in the catch of the loop
IsTotalFailure(pages, urlsToVisit) == Len(pages) = 0 /\ Len(urlsToVisit) = 0

\* the error the total-failure branch throws
MapFailure(error) ==
  IF error.responseStatus = 403
  THEN AppError("Access denied (403). This website blocks automated scraping requests.", 403)
  ELSE IF error.responseStatus = 429
  THEN AppError("Too many requests (429). Please try again later.", 429)
  ELSE error

\* the loop over the links of a page, had it not tested the visited set
RECURSIVE EnqueueLinksUnvisitedOrNot(_, _, _, _, _)
EnqueueLinksUnvisitedOrNot(links, baseUrl, visitedUrls, urlsToVisit, pushed) ==
  IF links = <<>> THEN [urlsToVisit |-> urlsToVisit, pushed |-> pushed]
  ELSE
    LET fullUrl == resolveUrl(Head(links), baseUrl)
        push == /\ fullUrl # Null
                /\ ~Includes(urlsToVisit, fullUrl)
    IN  EnqueueLinksUnvisitedOrNot(Tail(links), baseUrl, visitedUrls,
                     IF push THEN Append(urlsToVisit, fullUrl) ELSE urlsToVisit,
                     IF push THEN Append(pushed, fullUrl) ELSE pushed)

\* for (const link of pageData.internalLinks): the queue and the pushes made
RECURSIVE EnqueueLinks(_, _, _, _, _)
EnqueueLinks(links, baseUrl, visitedUrls, urlsToVisit, pushed) ==
  IF links = <<>> THEN [urlsToVisit |-> urlsToVisit, pushed |-> pushed]
  ELSE
    LET fullUrl == resolveUrl(Head(links), baseUrl)
        push == /\ fullUrl # Null
                /\ fullUrl \notin visitedUrls
                /\ ~Includes(urlsToVisit, fullUrl)
    IN  EnqueueLinks(Tail(links), baseUrl, visitedUrls,
                     IF push THEN Append(urlsToVisit, fullUrl) ELSE urlsToVisit,
                     IF push THEN Append(pushed, fullUrl) ELSE pushed)

Event(kind, url, j) ==
  [kind |-> kind, url |-> url, attempt |-> Len(j.fetched) + 1, pagesBefore |-> Len(j.pages),
   queueAfter |-> Len(j.urlsToVisit) - 1]

\* the head of the queue read and moved to the back of the queue, not removed
DequeueToTheBack(j) == [j EXCEPT !.urlsToVisit = Append(Tail(@), Head(@))]

\* const currentUrl = urlsToVisit.shift(), and the attempt on it recorded
Dequeue(j) == [j EXCEPT !.urlsToVisit = Tail(@), !.fetched = Append(@, Head(j.urlsToVisit))]

\* one iteration of the loop of crawlPages on a URL not yet visited, given what
\* the fetch gave
Iterate(j, got) ==
  LET currentUrl == Head(j.urlsToVisit)
      k == Dequeue(j)
      rest == k.urlsToVisit
  IN  IF got.kind = "html"
      THEN LET pageData == scrapePage(currentUrl, got.html, j.baseDomain)
               pages == Append(j.pages, pageData)
               visited == j.visitedUrls \cup {currentUrl}
               q == IF MayEnqueue(pages, j.maxPages)
                    THEN EnqueueLinks(pageData.internalLinks, j.baseUrl, visited, rest, <<>>)
                    ELSE [urlsToVisit |-> rest, pushed |-> <<>>]
           IN  [k EXCEPT !.pages = pages, !.visitedUrls = visited,
                         !.urlsToVisit = q.urlsToVisit,
                         !.enqueued = @ \o q.pushed,
                         !.challenged = IF got.html.marker THEN @ \cup {currentUrl} ELSE @,
                         !.last = Event("page", currentUrl, j)]
      ELSE IF got.kind = "null"
      THEN [k EXCEPT !.last = Event("null", currentUrl, j)]
      ELSE LET failed == [k EXCEPT !.visitedUrls = @ \cup {currentUrl}]
           IN  IF IsTotalFailure(j.pages, rest)
               THEN CrawlThrows([failed EXCEPT !.thrown = Append(@, got.error),
                                               !.last = Event("fatal", currentUrl, j)],
                                MapFailure(got.error))
               ELSE [failed EXCEPT !.last = Event("absorbed", currentUrl, j)]

\* if (this.visitedUrls.has(currentUrl)) continue
Skip(j) ==
  [j EXCEPT !.urlsToVisit = Tail(@), !.last = Event("skip", Head(j.urlsToVisit), j)]

----------------------------------------------------------------------------
(* Actions *)

\* the lines of scrape before the host test
EnterScrape(j, url, parsedUrl) ==
  [j EXCEPT !.url = url,
            !.baseUrl = <<parsedUrl.protocol, "/", "/">> \o parsedUrl.host,
            !.baseDomain = parsedUrl.host]

\* the URL is handed to the adapter
ToAdapter(url) == LET parsedUrl == URL(url, Null) IN parsedUrl.ok /\ IsLeetCode(parsedUrl.host)

\* scrape(url) on a host the adapter does not take, up to the first fetch
ScrapeStep(j, url) ==
  LET parsedUrl == URL(url, Null)
  IN  IF ~parsedUrl.ok
      THEN ScrapeCatch([j EXCEPT !.url = url], PlainError("Invalid URL", "ERR_INVALID_URL", 0))
      ELSE BeginCrawl([EnterScrape(j, url, parsedUrl) EXCEPT !.usePuppeteer = FALSE], url)

\* scrape(url) on the adapter's host: return await this.scrapeLeetCode(...)
AdapterStep(j, url, reply) ==
  LET parsedUrl == URL(url, Null)
      k == EnterScrape(j, url, parsedUrl)
      r == scrapeLeetCode(url, parsedUrl, reply)
  IN  IF r.kind = "throw" THEN ScrapeCatch(k, r.error)
      ELSE [k EXCEPT !.pc = "done",
              !.result = [kind |-> "site", siteTitle |-> ProfileTitle,
                          baseUrl |-> <<"https:", "/", "/", "leetcode.com">>,
                          totalPages |-> 1, pages |-> r.pages, error |-> NoError]]

InLoop(j) ==
  /\ j.pc = "crawl"
  /\ LoopCondition(j.urlsToVisit, j.pages, j.maxPages)

\* one iteration of the crawl loop with the static strategy
StaticStep(j, settle) ==
  IF Head(j.urlsToVisit) \in j.visitedUrls
  THEN Skip(j)
  ELSE Iterate(j, scrapeWithAxios(settle))

\* one iteration of the crawl loop with the rendered strategy
RenderedStep(j, run) ==
  IF Head(j.urlsToVisit) \in j.visitedUrls
  THEN Skip(j)
  ELSE LET p == scrapeWithPuppeteer(j.browser, run)
       IN  Iterate([j EXCEPT !.browser = p.browser, !.launched = @ + p.launched,
                           !.unavailable = @ + p.unavailable], p.result)

\* the loop of crawlPages ends: no page is an error, else the pages are returned
EndStep(j) ==
  IF Len(j.pages) = 0
  THEN CrawlThrows([j EXCEPT !.emptyEnds = @ + 1],
         AppError("Could not scrape any pages from this website. The site may block scraping or require authentication.", 403))
  ELSE CrawlReturns(j)

----------------------------------------------------------------------------
(* One crawl job *)

NoJob == NewJob(0)

\* a body field that is not there
Absent == [present |-> FALSE, value |-> 0]

NoRequest == [state |-> "none", url |-> Null, maxPages |-> Absent, invalid |-> FALSE, status |-> 0]

NoPageData == [url |-> Null, fullUrl |-> Null, title |-> "", internalLinks |-> <<>>, externalLinks |-> <<>>]

NoExtraction == [state |-> "none", url |-> Null, elements |-> <<>>, pageData |-> NoPageData]

NoFeed == << <<>>, <<>> >>

NoTab ==
  [pc |-> "idle", browser |-> "null", open |-> 0, opened |-> 0, closed |-> 0,
   calls |-> 0, failed |-> "none", ended |-> <<>>]

Init ==
  /\ \E m \in 1..MaxPagesBound : job = NewJob(m)
  /\ job2 = NoJob
  /\ req = NoRequest
  /\ ext = NoExtraction
  /\ fed = NoFeed
  /\ tab = NoTab

Scrape(url) ==
  /\ job.pc = "new"
  /\ ~ToAdapter(url)
  /\ job' = ScrapeStep(job, url)
  /\ UNCHANGED <<job2, req, ext, fed, tab>>

ScrapeAdapter(url, reply) ==
  /\ job.pc = "new"
  /\ ToAdapter(url)
  /\ job' = AdapterStep(job, url, reply)
  /\ UNCHANGED <<job2, req, ext, fed, tab>>

CrawlStatic(settle) ==
  /\ InLoop(job)
  /\ ~job.usePuppeteer
  /\ job' = StaticStep(job, settle)
  /\ UNCHANGED <<job2, req, ext, fed, tab>>

CrawlRendered(run) ==
  /\ InLoop(job)
  /\ job.usePuppeteer
  /\ job' = RenderedStep(job, run)
  /\ UNCHANGED <<job2, req, ext, fed, tab>>

CrawlEnds ==
  /\ job.pc = "crawl"
  /\ ~InLoop(job)
  /\ job' = EndStep(job)
  /\ UNCHANGED <<job2, req, ext, fed, tab>>

Next ==
  \/ \E url \in Seeds : Scrape(url)
  \/ \E url \in Seeds, reply \in LeetCodeReplies : ScrapeAdapter(url, reply)
  \/ \E settle \in AxiosSettles : CrawlStatic(settle)
  \/ \E run \in PuppeteerRuns : CrawlRendered(run)
  \/ CrawlEnds

Spec == Init /\ [][Next]_vars

\* the markup, the fetch outcomes and the browser behaviour of the jobs that
\* are followed to their end
LiveDocuments ==
  { [marker |-> TRUE, anchors |-> <<>>],
    [marker |-> FALSE, anchors |-> << <<"#", "s">> >>],
    [marker |-> FALSE, anchors |-> << <<"/", "a">>, <<"https:", "/", "/", "h", "/", "/", "e", "/", "a">> >>] }

LiveSettles ==
  { [rejected |-> TRUE, code |-> "ENOTFOUND", status |-> 0, html |-> FALSE, data |-> NoDocument],
    [rejected |-> TRUE, code |-> "ERR_BAD_REQUEST", status |-> 403, html |-> FALSE,
     data |-> NoDocument],
    [rejected |-> FALSE, code |-> "", status |-> 200, html |-> FALSE, data |-> NoDocument] }
    \cup
  { [rejected |-> FALSE, code |-> "", status |-> 200, html |-> TRUE, data |-> d] :
      d \in LiveDocuments }

LiveRuns ==
  { [launch |-> l, pageThrows |-> TRUE, content |-> NoDocument] : l \in {"ok", "unavailable"} }
    \cup
  { [launch |-> "ok", pageThrows |-> FALSE, content |-> d] : d \in LiveDocuments }

LiveSeeds ==
  { <<"https:", "/", "/", "h", "/">>, <<"h">>,
    <<"https:", "/", "/", "leetcode.com", "/", "u", "/", "x">> }

NextLive ==
  \/ \E url \in LiveSeeds : Scrape(url)
  \/ \E url \in LiveSeeds, reply \in LeetCodeReplies : ScrapeAdapter(url, reply)
  \/ \E settle \in LiveSettles : CrawlStatic(settle)
  \/ \E run \in LiveRuns : CrawlRendered(run)
  \/ CrawlEnds

\* every awaited fetch settles and every continuation then runs: a step that
\* can be taken is taken
FairSpec == Init /\ [][NextLive]_vars /\ WF_vars(NextLive)

----------------------------------------------------------------------------
(* The route POST /api/scrape (routes/scrape.routes.js) *)

\* isInt({ min: 1, max: 5 })
ValidatorMin == 1
ValidatorMax == 5

\* const { url, maxPages = 5 } = req.body
DefaultMaxPages == 5

\* the status of express-validator failures
BadRequest == 400

\* the value of a body field that carries the integer n
Field(n) == [present |-> TRUE, value |-> n]

\* isURL({ protocols: ['http', 'https'], require_protocol: true })
isURL(url) ==
  /\ Len(url) >= 4
  /\ url[1] \in {"http:", "https:"}
  /\ url[2] = "/" /\ url[3] = "/"
  /\ url[4] \notin {"/", "?", "#"}

\* body('url').notEmpty().isURL(...)
UrlIsValid(url) == url # Null /\ isURL(url)

\* body('maxPages').optional().isInt({ min: 1, max: 5 })
MaxPagesIsValid(maxPages) ==
  maxPages.present => (maxPages.value >= ValidatorMin /\ maxPages.value <= ValidatorMax)

\* parseInt(maxPages), with the default of the destructuring
ParsedMaxPages(maxPages) == IF maxPages.present THEN maxPages.value ELSE DefaultMaxPages

\* the bodies clients send
RequestUrls ==
  { Null, <<"h">>, <<"https:", "/", "/", "h", "/">>,
    <<"https:", "/", "/", "leetcode.com", "/", "u", "/", "x">> }

RequestMaxPages == {Absent} \cup { Field(n) : n \in 0..MaxRequestPages }

\* what the network answers to the crawl of a request
RouteSettles ==
  { [rejected |-> TRUE, code |-> "ERR_BAD_REQUEST", status |-> 403, html |-> FALSE,
     data |-> NoDocument],
    [rejected |-> FALSE, code |-> "", status |-> 200, html |-> TRUE,
     data |-> [marker |-> FALSE, anchors |-> <<>>]],
    [rejected |-> FALSE, code |-> "", status |-> 200, html |-> TRUE,
     data |-> [marker |-> FALSE, anchors |-> << <<"/", "a">> >>]] }

RouteRuns ==
  { [launch |-> "unavailable", pageThrows |-> TRUE, content |-> NoDocument],
    [launch |-> "ok", pageThrows |-> FALSE, content |-> [marker |-> FALSE, anchors |-> <<>>]] }

InitRoute ==
  /\ job = NoJob
  /\ job2 = NoJob
  /\ ext = NoExtraction
  /\ fed = NoFeed
  /\ tab = NoTab
  /\ \E url \in RequestUrls, maxPages \in RequestMaxPages :
       req = [state |-> "received", url |-> url, maxPages |-> maxPages,
              invalid |-> FALSE, status |-> 0]

\* the validation chain runs before the handler
RouteValidates ==
  /\ req.state = "received"
  /\ req' = [req EXCEPT !.state = "validated",
                        !.invalid = ~(UrlIsValid(req.url) /\ MaxPagesIsValid(req.maxPages))]
  /\ UNCHANGED <<job, job2, ext, fed, tab>>

\* the handler answers 400 on validation errors
RouteRejects ==
  /\ req.state = "validated"
  /\ req.invalid
  /\ req' = [req EXCEPT !.state = "responded", !.status = BadRequest]
  /\ UNCHANGED <<job, job2, ext, fed, tab>>

\* the handler builds a ScraperService and calls scrape(url)
RouteScrapes(reply) ==
  /\ req.state = "validated"
  /\ ~req.invalid
  /\ req' = [req EXCEPT !.state = "scraping"]
  /\ job' = LET scraper == NewJob(ParsedMaxPages(req.maxPages))
            IN  IF ToAdapter(req.url)
                THEN AdapterStep(scraper, req.url, reply)
                ELSE ScrapeStep(scraper, req.url)
  /\ UNCHANGED <<job2, ext, fed, tab>>

RouteCrawlStatic(settle) ==
  /\ req.state = "scraping"
  /\ InLoop(job)
  /\ ~job.usePuppeteer
  /\ job' = StaticStep(job, settle)
  /\ UNCHANGED <<job2, req, ext, fed, tab>>

RouteCrawlRendered(run) ==
  /\ req.state = "scraping"
  /\ InLoop(job)
  /\ job.usePuppeteer
  /\ job' = RenderedStep(job, run)
  /\ UNCHANGED <<job2, req, ext, fed, tab>>

RouteCrawlEnds ==
  /\ req.state = "scraping"
  /\ job.pc = "crawl"
  /\ ~InLoop(job)
  /\ job' = EndStep(job)
  /\ UNCHANGED <<job2, req, ext, fed, tab>>

\* res.json(...) or res.status(error.statusCode || 500).json(...)
RouteResponds ==
  /\ req.state = "scraping"
  /\ job.pc = "done"
  /\ req' = [req EXCEPT !.state = "responded",
                        !.status = IF job.result.kind = "site" THEN 200
                                   ELSE IF job.result.error.statusCode # 0
                                        THEN job.result.error.statusCode ELSE 500]
  /\ UNCHANGED <<job, job2, ext, fed, tab>>

NextRoute ==
  \/ RouteValidates
  \/ RouteRejects
  \/ \E reply \in LeetCodeReplies : RouteScrapes(reply)
  \/ \E settle \in RouteSettles : RouteCrawlStatic(settle)
  \/ \E run \in RouteRuns : RouteCrawlRendered(run)
  \/ RouteCrawlEnds
  \/ RouteResponds

SpecRoute == InitRoute /\ [][NextRoute]_vars

----------------------------------------------------------------------------
(* Two requests served concurrently: the handler builds one ScraperService *)
(* for each request, and the jobs interleave at their await points         *)

\* the other request's ScraperService, had the module exported one instance:
\* its fields are the fields the stepping job has just written
OtherAfterShared(mine, other) ==
  [other EXCEPT !.visitedUrls = mine.visitedUrls,
                !.baseUrl = mine.baseUrl,
                !.baseDomain = mine.baseDomain,
                !.browser = mine.browser,
                !.usePuppeteer = mine.usePuppeteer]

\* the other request's ScraperService after a step of this one: the handler
\* has built it with its own new ScraperService(...), a different object
OtherAfter(mine, other) == other

TwoSeeds == { <<"https:", "/", "/", "h", "/">>, <<"https:", "/", "/", "e", "/", "a">> }

TwoSettles ==
  { [rejected |-> TRUE, code |-> "ERR_BAD_REQUEST", status |-> 403, html |-> FALSE,
     data |-> NoDocument],
    [rejected |-> FALSE, code |-> "", status |-> 200, html |-> TRUE,
     data |-> [marker |-> FALSE, anchors |-> << <<"/", "a">> >>]] }

TwoRuns ==
  { [launch |-> "unavailable", pageThrows |-> TRUE, content |-> NoDocument],
    [launch |-> "ok", pageThrows |-> FALSE, content |-> [marker |-> FALSE, anchors |-> <<>>]] }

NoSettle == [rejected |-> FALSE, code |-> "", status |-> 0, html |-> FALSE, data |-> NoDocument]

NoRun == [launch |-> "none", pageThrows |-> FALSE, content |-> NoDocument]

\* what one step of a job consumes
Outcome(url, settle, run) == [url |-> url, settle |-> settle, run |-> run]

\* the step a job takes from state j when the outside world answers as `given'
StepOn(j, given) ==
  IF j.pc = "new" THEN ScrapeStep(j, given.url)
  ELSE IF InLoop(j)
       THEN IF j.usePuppeteer THEN RenderedStep(j, given.run) ELSE StaticStep(j, given.settle)
       ELSE IF j.pc = "crawl" THEN EndStep(j) ELSE j

\* the job running alone against the outcomes of `log'
RECURSIVE RunAlone(_, _)
RunAlone(j, log) == IF log = <<>> THEN j ELSE RunAlone(StepOn(j, Head(log)), Tail(log))

JobOf(i) == IF i = 1 THEN job ELSE job2

\* job i moves to j on `given'; the other job is what its own instance holds
TwoPut(i, j, given) ==
  /\ job' = IF i = 1 THEN j ELSE OtherAfter(j, job)
  /\ job2' = IF i = 2 THEN j ELSE OtherAfter(j, job2)
  /\ fed' = [fed EXCEPT ![i] = Append(@, given)]
  /\ UNCHANGED <<req, ext, tab>>

InitTwo ==
  /\ \E m \in 1..MaxPagesBound : job = NewJob(m)
  /\ \E m \in 1..MaxPagesBound : job2 = NewJob(m)
  /\ req = NoRequest
  /\ ext = NoExtraction
  /\ fed = NoFeed
  /\ tab = NoTab

TwoScrape(i, url) ==
  /\ JobOf(i).pc = "new"
  /\ ~ToAdapter(url)
  /\ TwoPut(i, ScrapeStep(JobOf(i), url), Outcome(url, NoSettle, NoRun))

TwoCrawlStatic(i, settle) ==
  /\ InLoop(JobOf(i))
  /\ ~JobOf(i).usePuppeteer
  /\ TwoPut(i, StaticStep(JobOf(i), settle), Outcome(Null, settle, NoRun))

TwoCrawlRendered(i, run) ==
  /\ InLoop(JobOf(i))
  /\ JobOf(i).usePuppeteer
  /\ TwoPut(i, RenderedStep(JobOf(i), run), Outcome(Null, NoSettle, run))

TwoCrawlEnds(i) ==
  /\ JobOf(i).pc = "crawl"
  /\ ~InLoop(JobOf(i))
  /\ TwoPut(i, EndStep(JobOf(i)), Outcome(Null, NoSettle, NoRun))

NextTwo ==
  \/ \E i \in 1..2, url \in TwoSeeds : TwoScrape(i, url)
  \/ \E i \in 1..2, settle \in TwoSettles : TwoCrawlStatic(i, settle)
  \/ \E i \in 1..2, run \in TwoRuns : TwoCrawlRendered(i, run)
  \/ \E i \in 1..2 : TwoCrawlEnds(i)

SpecTwo == InitTwo /\ [][NextTwo]_vars

----------------------------------------------------------------------------
(* scrapeWithPuppeteer step by step: the life of its page context *)

\* the awaited steps inside the try block, in order
PageSteps == <<"setup", "goto", "scroll", "content">>

\* the step after step s of the try block
AfterStep(s) ==
  LET i == CHOOSE n \in 1..Len(PageSteps) : PageSteps[n] = s
  IN  IF i < Len(PageSteps) THEN PageSteps[i + 1] ELSE "close"

\* the catch block, had it only rethrown
CatchBlockRethrows(t) == [t EXCEPT !.pc = "idle", !.ended = Append(@, t.failed)]

\* catch (error) { await page.close(); throw error; }
CatchBlock(t) ==
  [t EXCEPT !.pc = "idle", !.ended = Append(@, t.failed), !.open = @ - 1, !.closed = @ + 1]

InitPage ==
  /\ job = NoJob
  /\ job2 = NoJob
  /\ req = NoRequest
  /\ ext = NoExtraction
  /\ fed = NoFeed
  /\ tab = NoTab

\* scrapePage calls scrapeWithPuppeteer(url)
PageCalled ==
  /\ tab.pc = "idle"
  /\ tab.calls < MaxCalls
  /\ tab' = [tab EXCEPT !.pc = "getBrowser", !.calls = @ + 1, !.failed = "none"]
  /\ UNCHANGED <<job, job2, req, ext, fed>>

\* const browser = await this.getBrowser(); if (!browser) throw ...
PageGetsBrowser(launch) ==
  /\ tab.pc = "getBrowser"
  /\ LET b == getBrowser(tab.browser, [launch |-> launch])
     IN  tab' = IF b.returns = "open"
                THEN [tab EXCEPT !.pc = "newPage", !.browser = b.browser]
                ELSE [tab EXCEPT !.pc = "idle", !.browser = b.browser,
                                 !.ended = Append(@, launch)]
  /\ UNCHANGED <<job, job2, req, ext, fed>>

\* const page = await browser.newPage(), before the try block
PageOpens(ok) ==
  /\ tab.pc = "newPage"
  /\ tab' = IF ok
            THEN [tab EXCEPT !.pc = PageSteps[1], !.open = @ + 1, !.opened = @ + 1]
            ELSE [tab EXCEPT !.pc = "idle", !.ended = Append(@, "newPage")]
  /\ UNCHANGED <<job, job2, req, ext, fed>>

\* one awaited step of the try block: it resolves, or rejects into the catch
PageStepRuns(ok) ==
  /\ Includes(PageSteps, tab.pc)
  /\ tab' = IF ok
            THEN [tab EXCEPT !.pc = AfterStep(tab.pc)]
            ELSE [tab EXCEPT !.pc = "catch", !.failed = tab.pc]
  /\ UNCHANGED <<job, job2, req, ext, fed>>

\* await page.close(); return html
PageCloses ==
  /\ tab.pc = "close"
  /\ tab' = [tab EXCEPT !.pc = "idle", !.ended = Append(@, "html"),
                        !.open = @ - 1, !.closed = @ + 1]
  /\ UNCHANGED <<job, job2, req, ext, fed>>

PageCatches ==
  /\ tab.pc = "catch"
  /\ tab' = CatchBlock(tab)
  /\ UNCHANGED <<job, job2, req, ext, fed>>

NextPage ==
  \/ PageCalled
  \/ \E launch \in {"ok", "unavailable", "throws"} : PageGetsBrowser(launch)
  \/ \E ok \in BOOLEAN : PageOpens(ok)
  \/ \E ok \in BOOLEAN : PageStepRuns(ok)
  \/ PageCloses
  \/ PageCatches

SpecPage == InitPage /\ [][NextPage]_vars

----------------------------------------------------------------------------
(* scrapePage on one fetched document *)

\* the anchor elements of a document: an href and the place it stands in
Elements == [href : Hrefs, place : Places]

Markups == UNION { [1..n -> Elements] : n \in 0..MaxAnchors }

PageUrls == { <<"https:", "/", "/", "h", "/">>, <<"https:", "/", "/", "h", "/", "a">> }

InitExtract ==
  /\ job = NoJob
  /\ job2 = NoJob
  /\ req = NoRequest
  /\ fed = NoFeed
  /\ tab = NoTab
  /\ \E url \in PageUrls, elements \in Markups :
       ext = [state |-> "fetched", url |-> url, elements |-> elements, pageData |-> NoPageData]

\* scrapePage builds the PageResult from the markup of a page of the job's host
Extract ==
  /\ ext.state = "fetched"
  /\ ext' = [ext EXCEPT !.state = "extracted",
                        !.pageData = scrapePageOf(ext.url, ext.elements, URL(ext.url, Null).host)]
  /\ UNCHANGED <<job, job2, req, fed, tab>>

NextExtract == Extract

SpecExtract == InitExtract /\ [][NextExtract]_vars

----------------------------------------------------------------------------
(* Crawls of documents that carry titles *)

\* markup with a title element and a first h1 ("" where the text is empty)
TitledDocuments ==
  [marker : {FALSE}, anchors : {<<>>, << <<"/", "a">> >>},
   title : {"", "t", "u"}, h1 : {"", "v"}]

TitledSettles ==
  { [rejected |-> TRUE, code |-> "ERR_BAD_REQUEST", status |-> 403, html |-> FALSE,
     data |-> NoDocument],
    [rejected |-> FALSE, code |-> "", status |-> 200, html |-> FALSE, data |-> NoDocument] }
    \cup
  { [rejected |-> FALSE, code |-> "", status |-> 200, html |-> TRUE, data |-> d] :
      d \in TitledDocuments }

TitledRuns ==
  { [launch |-> "unavailable", pageThrows |-> TRUE, content |-> NoDocument] }
    \cup
  { [launch |-> "ok", pageThrows |-> FALSE, content |-> d] : d \in TitledDocuments }

TitledSeeds == { <<"https:", "/", "/", "h", "/">>, <<"https:", "/", "/", "h", "/", "a">> }

NextTitled ==
  \/ \E url \in TitledSeeds : Scrape(url)
  \/ \E settle \in TitledSettles : CrawlStatic(settle)
  \/ \E run \in TitledRuns : CrawlRendered(run)
  \/ CrawlEnds

SpecTitled == Init /\ [][NextTitled]_vars

----------------------------------------------------------------------------
(* Crawls from seed URLs of several forms *)

\* the seed without and with a trailing slash, with a query and with a fragment
SeedForms ==
  { <<"https:", "/", "/", "h">>,
    <<"https:", "/", "/", "h", "/">>,
    <<"https:", "/", "/", "h", "/", "a", "?", "q">>,
    <<"https:", "/", "/", "h", "/", "a", "#", "s">> }

\* pages that link to the root, to /a, or to a fragment of themselves
FormDocuments ==
  { [marker |-> FALSE, anchors |-> a] :
      a \in { <<>>, << <<"/">> >>, << <<"/", "a">> >>, << <<"#", "s">> >> } }

FormSettles ==
  { [rejected |-> TRUE, code |-> "ERR_BAD_REQUEST", status |-> 403, html |-> FALSE,
     data |-> NoDocument] }
    \cup
  { [rejected |-> FALSE, code |-> "", status |-> 200, html |-> TRUE, data |-> d] :
      d \in FormDocuments }

FormRuns ==
  { [launch |-> "unavailable", pageThrows |-> TRUE, content |-> NoDocument] }
    \cup
  { [launch |-> "ok", pageThrows |-> FALSE, content |-> d] : d \in FormDocuments }

NextForms ==
  \/ \E url \in SeedForms : Scrape(url)
  \/ \E settle \in FormSettles : CrawlStatic(settle)
  \/ \E run \in FormRuns : CrawlRendered(run)
  \/ CrawlEnds

SpecForms == Init /\ [][NextForms]_vars

----------------------------------------------------------------------------
(* Properties *)

Done == job.pc = "done"

Failed == Done /\ job.result.kind = "error"

Returned == Done /\ job.result.kind = "site"

All(s, P(_)) == \A i \in 1..Len(s) : P(s[i])

HostOf(url) == URL(url, Null).host

NotFound == AppError("Website not found. Please check the URL.", 400)

AccessDenied ==
  AppError("Access denied (403). This website blocks automated scraping requests.", 403)

RateLimited == AppError("Too many requests (429). Please try again later.", 429)

NoPagesScraped ==
  AppError("Could not scrape any pages from this website. The site may block scraping or require authentication.", 403)

BlockingSignal == PlainError("Cloudflare protection detected", "", 0)

C2_EscalationOnlyOnBlockingSignal ==
  job.usePuppeteer => job.axiosError = BlockingSignal

\* C3: when the seed fetch failed with ENOTFOUND and the queue was empty, the
\* job ends with the NotFound error (400).
C3_DnsFailureIsNotFound ==
  (Done /\ job.thrown # <<>> /\ job.thrown[1].code = "ENOTFOUND")
    => (job.result.kind = "error" /\ job.result.error = NotFound)

\* C4: when the seed fetch failed with HTTP 403 (429) with no page collected
\* and the queue empty, the caller receives AccessDenied (RateLimited); an
\* AppError thrown by crawlPages is the error the caller receives.
C4_SeedStatusReachesCaller ==
  /\ (Done /\ job.thrown # <<>> /\ job.thrown[1].responseStatus = 403)
       => (job.result.kind = "error" /\ job.result.error = AccessDenied)
  /\ (Done /\ job.thrown # <<>> /\ job.thrown[1].responseStatus = 429)
       => (job.result.kind = "error" /\ job.result.error = RateLimited)
  /\ (Done /\ job.axiosError.name = "AppError")
       => (job.result.kind = "error" /\ job.result.error = job.axiosError)

\* C5: when the rendered markup of the seed page still held a challenge marker,
\* the job ends with an error of status 403 and returns no SiteResult.
C5_SecondBlockIsAccessDenied ==
  (Done /\ job.usePuppeteer /\ job.url \in job.challenged)
    => (job.result.kind = "error" /\ job.result.error.statusCode = 403)

\* C6: when the loop of a traversal ended with no page collected, the job ends
\* with the NoPagesScraped error; and that ending (such as a null retrieval of
\* the seed) does not switch the retrieval strategy.
C6_NoPagesScraped ==
  /\ (Done /\ job.emptyEnds > 0)
       => (job.result.kind = "error" /\ job.result.error = NoPagesScraped)
  /\ job.usePuppeteer => job.axiosError # NoPagesScraped

\* C7: with maxPages = 1 no URL but the seed is pushed on the queue or fetched,
\* and a SiteResult holds exactly one page.
C7_SinglePage ==
  job.maxPages = 1 =>
    /\ All(job.enqueued, LAMBDA u : u = job.url)
    /\ All(job.fetched, LAMBDA u : u = job.url)
    /\ Returned => (Len(job.result.pages) = 1 /\ job.result.totalPages = 1)

\* a one-page SiteResult whose page has internal links
C7_Witness ==
  /\ job.maxPages = 1
  /\ Returned
  /\ job.result.pages[1].internalLinks # <<>>

\* C8: when scrape has finished, this.browser is null and every browser that
\* was launched has been closed; at most one browser is open at any time.
C8_BrowserClosed ==
  /\ Done => (job.browser = "null" /\ job.closed = job.launched)
  /\ job.launched - job.closed = (IF job.browser = "open" THEN 1 ELSE 0)

\* scrape failed in the rendered traversal after a browser had been launched
C8_Witness ==
  /\ Failed
  /\ job.launched = 1
  /\ Len(job.thrown) = 2

\* C9: every URL a job enqueues or fetches, and every internalLinks entry
\* resolved against baseUrl, has the host of the seed URL.
C9_SameHost ==
  /\ All(job.enqueued, LAMBDA u : HostOf(u) = job.baseDomain)
  /\ All(job.fetched, LAMBDA u : HostOf(u) = job.baseDomain)
  /\ All(job.pages, LAMBDA p :
       All(p.internalLinks, LAMBDA l : HostOf(resolveUrl(l, job.baseUrl)) = job.baseDomain))

\* C10: a failed fetch is absorbed when a page has been collected or the queue
\* is not empty: the URL is visited, the loop goes on and the pages collected
\* are kept, so that a job that collected a page returns them; a failed fetch
\* is fatal only with no page collected and the queue empty.
C10_FailureAbsorbed ==
  /\ job.last.kind = "absorbed" =>
       /\ job.last.pagesBefore > 0 \/ job.last.queueAfter > 0
       /\ job.last.url \in job.visitedUrls
       /\ Len(job.pages) = job.last.pagesBefore
       /\ Len(job.urlsToVisit) = job.last.queueAfter
  /\ job.last.kind = "fatal" =>
       /\ job.last.pagesBefore = 0
       /\ job.last.queueAfter = 0
  /\ (Done /\ Len(job.pages) > 0) =>
       (job.result.kind = "site" /\ job.result.pages = job.pages)

\* a failure was absorbed and the job returned the pages collected before it
C10_Witness ==
  /\ Returned
  /\ job.last.kind = "absorbed"
  /\ job.last.pagesBefore = Len(job.result.pages)

\* the job was started on a URL whose host contains leetcode.com
OnLeetCode == job.url # Null /\ Includes(HostOf(job.url), "leetcode.com")

DocumentedMaxPages == 10

\* the handler has run on the request
Answered == req.state \in {"scraping", "responded"}

\* C12: a request with a valid url whose maxPages is an integer from 1 to 10
\* is not rejected by validation, and the job it starts carries that maxPages;
\* a maxPages outside 1..10 is answered 400.
C12_DocumentedRangeAccepted ==
  (Answered /\ UrlIsValid(req.url) /\ req.maxPages.present) =>
    IF req.maxPages.value >= 1 /\ req.maxPages.value <= DocumentedMaxPages
    THEN ~req.invalid /\ job.maxPages = req.maxPages.value
    ELSE req.invalid /\ req.status = BadRequest

\* the fields of a ScraperService
Instance(j) ==
  [visitedUrls |-> j.visitedUrls, urlsToVisit |-> j.urlsToVisit,
   usePuppeteer |-> j.usePuppeteer, baseDomain |-> j.baseDomain, browser |-> j.browser]

\* a step that job i did not take leaves job i as it was
Untouched ==
  /\ fed'[1] = fed[1] => Instance(job') = Instance(job)
  /\ fed'[2] = fed[2] => Instance(job2') = Instance(job2)

\* each job is where it would be, had it run alone on the outcomes it consumed
AsAlone ==
  /\ job = RunAlone(NewJob(job.maxPages), fed[1])
  /\ job2 = RunAlone(NewJob(job2.maxPages), fed[2])

C14_AttemptedIsVisited ==
  (job.pc = "crawl" /\ job.last.kind \in {"page", "null", "absorbed"}) =>
    job.last.url \in job.visitedUrls

\* a sequence without a repeated element
NoRepeat(q) == \A a, b \in 1..Len(q) : q[a] = q[b] => a = b

Escalation ==
  /\ ~job.usePuppeteer /\ job'.usePuppeteer
  /\ job.traversals = 1 /\ job'.traversals = 2
  /\ Len(job.pages) = 0
  /\ job'.last.url = job.url
  /\ job'.pc = "crawl"
  /\ job'.visitedUrls = {}
  /\ job'.pages = <<>>
  /\ job'.urlsToVisit = <<job.url>>

\* C16: within a job the retrieval mode changes only from static to rendered,
\* and once (the first traversal ends, the second begins); the change comes
\* with no page collected and the seed as the URL attempted last, and leaves
\* an empty visited set, an empty page list and a queue holding only the seed.
C16_EscalatesOnceFromSeed ==
  [][job'.usePuppeteer # job.usePuppeteer => Escalation]_vars

\* the rendered traversal is about to start after a fetch error on the seed
C16_Witness ==
  /\ job.pc = "crawl"
  /\ job.usePuppeteer
  /\ job.traversals = 2
  /\ job.thrown # <<>>
  /\ job.fetched = <<>>
  /\ job.urlsToVisit = <<job.url>>

\* C17: when getBrowser gives no browser, the rendered fetch throws `Browser
\* not available' and the job ends with an AppError for the caller: no
\* SiteResult, no third traversal, and no fetch after the one on the seed.
C17_NoBrowserFailsJob ==
  job.unavailable > 0 =>
    /\ Failed
    /\ job.result.error.name = "AppError"
    /\ job.result.error.statusCode = 500
    /\ job.result.pages = <<>>
    /\ job.thrown[Len(job.thrown)].message = "Browser not available"
    /\ job.unavailable = 1
    /\ job.traversals = 2
    /\ job.fetched = <<job.url>>
    /\ job.launched = 0

\* the static traversal was blocked and the rendered one found no browser
C17_Witness ==
  /\ job.unavailable = 1
  /\ job.axiosError.statusCode = 403
  /\ Failed

\* C18: a page context that scrapeWithPuppeteer opened is closed when the call
\* has returned or thrown, whichever step failed; between two calls no page
\* context is open, and at most one is open at any time.
C18_PageContextClosed ==
  /\ tab.open = tab.opened - tab.closed
  /\ tab.open <= 1
  /\ tab.pc = "idle" => tab.open = 0

\* the second call has thrown out of the scroll step, after the first had
\* thrown out of the navigation
C18_Witness ==
  /\ tab.pc = "idle"
  /\ tab.ended = <<"goto", "scroll">>
  /\ tab.opened = 2
  /\ tab.closed = 2

\* C19: every crawl job ends, with a SiteResult or with an AppError, whatever
\* the link graph and the fetch outcomes, provided every fetch settles.
C19_JobEnds == <>(Done /\ job.result.kind \in {"site", "error"})

\* a job that returned pages from its second traversal after more than one
\* fetch
C19_Witness ==
  /\ Returned
  /\ job.traversals = 2
  /\ Len(job.fetched) >= 2

\* C20: the internalLinks and externalLinks of a PageResult are the links
\* classified from every anchor of the fetched markup, those inside nav or
\* footer elements included.
C20_LinksFromEveryAnchor ==
  ext.state = "extracted" =>
    /\ ext.pageData.internalLinks =
         extractInternalLinks(AllAnchors(ext.elements), ext.url, HostOf(ext.url))
    /\ ext.pageData.externalLinks =
         extractExternalLinks(AllAnchors(ext.elements), ext.url, HostOf(ext.url))

\* an href that is only a fragment, such as "#section"
FragmentOnly(href) == href # <<>> /\ Head(href) = "#"

\* the markup without its fragment-only anchors
WithoutFragments(elements) == SelectSeq(elements, LAMBDA e : ~FragmentOnly(e.href))

\* C21: a fragment-only anchor contributes nothing to internalLinks and
\* nothing to externalLinks: the PageResult has the links of the same markup
\* without its fragment-only anchors, so a page whose only anchors are
\* fragment-only has both lists empty.
C21_FragmentAnchorsExcluded ==
  ext.state = "extracted" =>
    LET without == scrapePageOf(ext.url, WithoutFragments(ext.elements), HostOf(ext.url))
    IN  /\ ext.pageData.internalLinks = without.internalLinks
        /\ ext.pageData.externalLinks = without.externalLinks

\* a can be had from b by leaving elements out
RECURSIVE IsSubsequence(_, _)
IsSubsequence(a, b) ==
  IF a = <<>> THEN TRUE
  ELSE IF b = <<>> THEN FALSE
  ELSE IF Head(a) = Head(b) THEN IsSubsequence(Tail(a), Tail(b))
  ELSE IsSubsequence(a, Tail(b))

\* C22: in a SiteResult of the generic crawler the first PageResult is the
\* page of the seed URL, siteTitle is that page's title, totalPages is the
\* length of pages, and the pages stand in the order their URLs were dequeued.
C22_SiteResultShape ==
  (Returned /\ ~OnLeetCode) =>
    LET pages == job.result.pages
    IN  /\ Len(pages) >= 1
        /\ pages[1].fullUrl = job.url
        /\ job.result.siteTitle = pages[1].title
        /\ job.result.totalPages = Len(pages)
        /\ IsSubsequence([i \in 1..Len(pages) |-> pages[i].fullUrl], job.fetched)

\* two pages with different titles were returned
C22_Witness ==
  /\ Returned
  /\ Len(job.result.pages) = 2
  /\ job.result.pages[1].title # job.result.pages[2].title
  /\ job.result.pages[2].title = "Untitled Page"

\* C23: no SiteResult holds two PageResults with the same site-relative path
\* (url field), whatever the form of the seed URL and the links of the pages.
C23_NoPathTwice ==
  Returned =>
    \A a, b \in 1..Len(job.result.pages) :
      job.result.pages[a].url = job.result.pages[b].url => a = b

\* C24: a traversal fails from inside the loop only on its first attempt, the
\* one on the seed URL; a failed fetch of any later attempt, and so of any
\* URL that is not the seed, comes after a page was collected and is absorbed.
C24_OnlySeedFailsTraversal ==
  /\ job.last.kind = "fatal" =>
       (job.last.attempt = 1 /\ job.last.url = job.url)
  /\ job.last.kind = "absorbed" =>
       (job.last.attempt > 1 /\ job.last.url # job.url /\ job.last.pagesBefore >= 1)

\* the fetch of a URL that is not the seed failed with the queue empty, after
\* one page, and the loop went on
C24_Witness ==
  /\ job.last.kind = "absorbed"
  /\ job.last.url # job.url
  /\ job.last.queueAfter = 0
  /\ job.last.pagesBefore = 1
  /\ job.pc = "crawl"

====
